---- MODULE Spec2Model ----
(***************************************************************************)
(* netmon: a packet monitor that classifies IPv4 frames against a set of   *)
(* tracked addresses and appends one CSV row per matching frame.           *)
(*                                                                         *)
(* Text is modelled as a sequence of tokens.  A token is a string: a whole *)
(* address, a direction word, one decimal digit, the field delimiter ";"   *)
(* or the record terminator "\n".  The log file and the writer's buffer    *)
(* are token sequences, so a short write can cut a row at any token.       *)
(***************************************************************************)
EXTENDS Integers, Sequences, FiniteSets, TLC

\* ------------------------------------------------------------------ bounds
MaxEntries == 2      \* entries in the comma-separated input line
MaxFrames == 2       \* frames the capture source delivers
MaxDevices == 1      \* adapters pcap.FindAllDevs can list
NumWriters == 2      \* concurrent callers of writeToCSVRow (SpecConc)

\* ------------------------------------------------------- program constants
snapshotLenght == 1024

Comma == ";"
NL == "\n"
SP == " "

\* ------------------------------------------------------------ input domains
A1 == "10.0.0.5"
A2 == "93.184.216.34"
FrameAddrs == {A1, A2}          \* addresses IPv4 frames carry
IPLiterals == {A1, A2}          \* strings net.ParseIP accepts
HostName == "example.com"
\* one comma-separated entry, before trimming
Entries == {<<>>, <<SP>>, <<A1>>, <<SP, A2, SP>>, <<HostName>>}
\* what the resolver can answer for a name: an error or a list of addresses
LookupAnswers == {<<>>, <<A2>>, <<A2, A1>>}
WireLens == {0, 1500}           \* on-the-wire frame lengths
Times == {0, 41}                \* seconds time.Now() can return
ShortWrites == {0, 5}           \* tokens a failing file write still accepts
NoPacket == [ipv4 |-> FALSE, src |-> "", dst |-> "", len |-> 0]

VARIABLES
    pc,           \* position of main
    exitCode,     \* -1 while running, else the process exit status
    pending,      \* entries of rawInputList the loop has not visited yet
    trackedIPs,   \* the tracked address set
    choice,       \* index of the selected adapter, -1 before the selection
    diskFile,     \* content of csm2networkreport.csv
    csvFile,      \* "nil", "open" or "closed"
    csvWriter,    \* [made, buf, err]: the csv.Writer and its bufio.Writer
    fileMutex,    \* 0 when free, else the holder
    handle,       \* "nil", "open" or "closed"
    defers,       \* main's deferred calls, last registered last
    packet,       \* the loop variable of the capture loop
    nPackets,     \* frames pulled from the packet source so far
    console,      \* lines printed by log and fmt, as message tags
    wpc,          \* SpecConc: position of each concurrent caller
    wargs,        \* SpecConc: arguments of each concurrent call
    wrec          \* SpecConc: the record each caller has built

vars == <<pc, exitCode, pending, trackedIPs, choice, diskFile, csvFile,
          csvWriter, fileMutex, handle, defers, packet, nPackets, console,
          wpc, wargs, wrec>>

mainVars == <<pc, exitCode, pending, trackedIPs, choice, csvFile,
              handle, defers, packet, nPackets>>

\* --------------------------------------------------------------- helpers
Min(a, b) == IF a < b THEN a ELSE b

Digit == <<"0", "1", "2", "3", "4", "5", "6", "7", "8", "9">>

\* strconv.FormatUint(size, 10): the decimal digits, most significant first
RECURSIVE FormatUint(_)
FormatUint(n) ==
    IF n < 10 THEN <<Digit[n + 1]>>
    ELSE FormatUint(n \div 10) \o <<Digit[(n % 10) + 1]>>

\* timestamp.Format(time.RFC3339) for a time t seconds into the epoch minute
Format(t) ==
    <<"1970-01-01T00:00:">> \o FormatUint((t \div 10) % 6) \o FormatUint(t % 10) \o <<"Z">>

\* strings.TrimSpace: drop leading and trailing white space
RECURSIVE TrimLeft(_)
TrimLeft(s) == IF s # <<>> /\ Head(s) = SP THEN TrimLeft(Tail(s)) ELSE s
RECURSIVE TrimRight(_)
TrimRight(s) ==
    IF s # <<>> /\ s[Len(s)] = SP THEN TrimRight(SubSeq(s, 1, Len(s) - 1)) ELSE s
TrimSpace(s) == TrimRight(TrimLeft(s))

\* net.ParseIP(entry) != nil
ParseIP(s) == Len(s) = 1 /\ s[1] \in IPLiterals

RECURSIVE SeqToSet(_)
SeqToSet(s) == IF s = <<>> THEN {} ELSE {Head(s)} \cup SeqToSet(Tail(s))

\* ---------------------------------------------------- bufio / csv writer
NewWriter == [made |-> TRUE, buf |-> <<>>, err |-> FALSE]
NoWriter == [made |-> FALSE, buf |-> <<>>, err |-> FALSE]

\* bufio.Writer.WriteString: a writer that has failed accepts nothing more
WriteString(w, toks) == IF w.err THEN w ELSE [w EXCEPT !.buf = @ \o toks]

\* csv.Writer.Write, field k of the record (the delimiter goes before every
\* field but the first); no field of this program needs quoting
WriteField(w, record, k) ==
    WriteString(IF k > 1 THEN WriteString(w, <<Comma>>) ELSE w, record[k])

RECURSIVE WriteFields(_, _, _)
WriteFields(w, record, k) ==
    IF k = 0 THEN w ELSE WriteField(WriteFields(w, record, k - 1), record, k)

\* csv.Writer.Write: all fields, then the terminator; the error it returns is
\* the buffered writer's error
CsvWrite(w, record) ==
    LET w1 == WriteString(WriteFields(w, record, Len(record)), <<NL>>)
    IN  [w |-> w1, err |-> w1.err]

\* variant: the write replaces the file's content
FileAppendTruncating(file, toks) == toks

\* os.File.Write appends to the file
FileAppend(file, toks) == file \o toks

\* variant: the flush is missing
FlushMissing(w, file, n) == [w |-> w, file |-> file]

\* csv.Writer.Flush -> bufio.Writer.Flush, when the file accepts n tokens of
\* the buffer: a short write keeps the rest buffered and latches the error
Flush(w, file, n) ==
    IF w.err \/ w.buf = <<>> THEN [w |-> w, file |-> file]
    ELSE LET k == Min(n, Len(w.buf))
         IN  [w |-> [w EXCEPT !.buf = SubSeq(@, k + 1, Len(@)),
                              !.err = k < Len(w.buf)],
              file |-> FileAppend(file, SubSeq(w.buf, 1, k))]

\* what the file can accept of a buffer: all of it, or a short write
Accepts(buf) == {Len(buf)} \cup {k \in ShortWrites : k < Len(buf)}

Headers == << <<"Timestamp">>, <<"IP">>, <<"Traffic">>, <<"Bytes">> >>

\* the record writeToCSVRow builds
Record(t, ip, direction, size) ==
    <<Format(t), <<ip>>, <<direction>>, FormatUint(size)>>

\* ----------------------------------------------------------- classifier
Ignore == [emit |-> FALSE, ip |-> "", direction |-> "", size |-> 0]
Emit(ip, direction, size) ==
    [emit |-> TRUE, ip |-> ip, direction |-> direction, size |-> size]

\* variant: the destination is looked up before the source
ClassifyDstFirst(p, tracked) ==
    IF ~p.ipv4 THEN Ignore
    ELSE IF p.dst \in tracked THEN Emit(p.dst, "Upload", p.len)
    ELSE IF p.src \in tracked THEN Emit(p.src, "Download", p.len)
    ELSE Ignore

\* variant: the Upload branch records the source address
ClassifyUploadSrc(p, tracked) ==
    IF ~p.ipv4 THEN Ignore
    ELSE IF p.src \in tracked THEN Emit(p.src, "Download", p.len)
    ELSE IF p.dst \in tracked THEN Emit(p.src, "Upload", p.len)
    ELSE Ignore

\* variant: a frame between two tracked addresses is dropped
ClassifyExactlyOne(p, tracked) ==
    IF ~p.ipv4 THEN Ignore
    ELSE IF p.src \in tracked /\ p.dst \in tracked THEN Ignore
    ELSE IF p.src \in tracked THEN Emit(p.src, "Download", p.len)
    ELSE IF p.dst \in tracked THEN Emit(p.dst, "Upload", p.len)
    ELSE Ignore

\* variant: the second lookup's result is not tested
ClassifyNoDstTest(p, tracked) ==
    IF ~p.ipv4 THEN Ignore
    ELSE IF p.src \in tracked THEN Emit(p.src, "Download", p.len)
    ELSE Emit(p.dst, "Upload", p.len)

\* the decision processPacket takes for a packet
Classify(p, tracked) ==
    IF ~p.ipv4 THEN Ignore
    ELSE IF p.src \in tracked THEN Emit(p.src, "Download", p.len)
    ELSE IF p.dst \in tracked THEN Emit(p.dst, "Upload", p.len)
    ELSE Ignore

\* variant: the emptiness test is missing
NoTargetsNever(tracked) == FALSE

\* len(trackedIPs) == 0
NoTargets(tracked) == Cardinality(tracked) = 0

\* variant: the lock never blocks
CanLockAlways(m) == TRUE

\* fileMutex.Lock() can be taken
CanLock(m) == m = 0

\* the packets the source can deliver: at most snapshotLenght bytes of a frame
Packets ==
    {[ipv4 |-> FALSE, src |-> "", dst |-> "", len |-> Min(l, snapshotLenght)] :
        l \in WireLens}
    \cup {[ipv4 |-> TRUE, src |-> s, dst |-> d, len |-> Min(l, snapshotLenght)] :
        s \in FrameAddrs, d \in FrameAddrs, l \in WireLens}

\* ------------------------------------------------------------------ main
Init ==
    /\ pc = "Start"
    /\ exitCode = -1
    /\ pending = <<>>
    /\ trackedIPs = {}
    /\ choice = -1
    /\ diskFile \in {<<>>, <<"stale", NL>>}
    /\ csvFile = "nil"
    /\ csvWriter = NoWriter
    /\ fileMutex = 0
    /\ handle = "nil"
    /\ defers = <<>>
    /\ packet = NoPacket
    /\ nPackets = 0
    /\ console = <<>>
    /\ wpc = <<>>
    /\ wargs = <<>>
    /\ wrec = <<>>

concVars == <<wpc, wargs, wrec>>

\* log.Fatal: print and os.Exit(1); deferred calls do not run
Fatal(msg) ==
    /\ pc' = "Exited"
    /\ exitCode' = 1
    /\ console' = Append(console, msg)

\* lines 78-85: read the input line and split it
ReadInput ==
    /\ pc = "Start"
    /\ \/ /\ Fatal("Error reading input:")
          /\ UNCHANGED pending
       \/ /\ \E n \in 1..MaxEntries : pending' \in [1..n -> Entries]
          /\ pc' = "Resolving"
          /\ UNCHANGED <<exitCode, console>>
    /\ UNCHANGED <<trackedIPs, choice, diskFile, csvFile, csvWriter,
                   fileMutex, handle, defers, packet, nPackets, concVars>>

\* lines 88-114: one iteration of the loop over rawInputList
ResolveEntry ==
    /\ pc = "Resolving"
    /\ pending # <<>>
    /\ pending' = Tail(pending)
    /\ LET trimmedEntry == TrimSpace(Head(pending))
       IN  IF trimmedEntry = <<>> THEN
               UNCHANGED <<trackedIPs, console>>
           ELSE IF ParseIP(trimmedEntry) THEN
               /\ trackedIPs' = trackedIPs \cup {trimmedEntry[1]}
               /\ UNCHANGED console
           ELSE
               \/ /\ console' = Append(console, "Could not resolve FQDN")
                  /\ UNCHANGED trackedIPs
               \/ \E ips \in LookupAnswers :
                     /\ trackedIPs' = trackedIPs \cup SeqToSet(ips)
                     /\ UNCHANGED console
    /\ UNCHANGED <<pc, exitCode, choice, diskFile, csvFile, csvWriter,
                   fileMutex, handle, defers, packet, nPackets, concVars>>

\* lines 116-118: refuse to go on without targets
CheckTargets ==
    /\ pc = "Resolving"
    /\ pending = <<>>
    /\ IF NoTargets(trackedIPs)
       THEN Fatal("You didn't enter any valid IPs or resolvable FQDNs.")
       ELSE /\ pc' = "FindDevs"
            /\ UNCHANGED <<exitCode, console>>
    /\ UNCHANGED <<pending, trackedIPs, choice, diskFile, csvFile,
                   csvWriter, fileMutex, handle, defers, packet, nPackets, concVars>>

\* lines 120-146: list the adapters, read and validate the adapter number
SelectAdapter ==
    /\ pc = "FindDevs"
    /\ \/ /\ Fatal("Error finding network adapters:")
          /\ UNCHANGED choice
       \/ /\ Fatal("Error reading adapter choice:")
          /\ UNCHANGED choice
       \/ /\ Fatal("Invalid choice. Please enter a valid number.")   \* Atoi fails
          /\ UNCHANGED choice
       \/ \E devices \in 0..MaxDevices, c \in -1..MaxDevices :
             IF c < 0 \/ c >= devices
             THEN /\ Fatal("Invalid choice. Please enter a valid number.")
                  /\ UNCHANGED choice
             ELSE /\ choice' = c
                  /\ pc' = "InitLog"
                  /\ UNCHANGED <<exitCode, console>>
    /\ UNCHANGED <<pending, trackedIPs, diskFile, csvFile, csvWriter,
                   fileMutex, handle, defers, packet, nPackets, concVars>>

\* lines 177-193: initCSVFile when os.Create succeeds and the file accepts n
\* tokens of the header row; the fresh file is empty
initCSVFile(n) == Flush(CsvWrite(NewWriter, Headers).w, <<>>, n)

\* lines 151-160: create the log, write the header, register the cleanup
InitCSV ==
    /\ pc = "InitLog"
    /\ \/ /\ Fatal("error creating CSV file")
          /\ UNCHANGED <<diskFile, csvFile, csvWriter, defers>>
       \/ \E n \in Accepts(CsvWrite(NewWriter, Headers).w.buf) :
             /\ csvFile' = "open"
             /\ csvWriter' = initCSVFile(n).w
             /\ diskFile' = initCSVFile(n).file
             /\ defers' = Append(defers, "csvCleanup")
             /\ pc' = "OpenCapture"
             /\ UNCHANGED <<exitCode, console>>
    /\ UNCHANGED <<pending, trackedIPs, choice, fileMutex, handle,
                   packet, nPackets, concVars>>

\* lines 163-167: open the adapter; log.Fatalf leaves the deferred calls unrun
OpenLive ==
    /\ pc = "OpenCapture"
    /\ \/ /\ Fatal("Error accessing adapter")
          /\ UNCHANGED <<handle, defers>>
       \/ /\ handle' = "open"
          /\ defers' = Append(defers, "handle.Close")
          /\ pc' = "Capturing"
          /\ UNCHANGED <<exitCode, console>>
    /\ UNCHANGED <<pending, trackedIPs, choice, diskFile, csvFile,
                   csvWriter, fileMutex, packet, nPackets, concVars>>

\* lines 34-50: writeToCSVRow run to completion by one caller, when the file
\* accepts n tokens at the flush; log holds the line it prints, if any
writeToCSVRow(w, file, t, ip, direction, size, n) ==
    LET r == CsvWrite(w, Record(t, ip, direction, size))
        f == Flush(r.w, file, n)
    IN  [w |-> f.w, file |-> f.file,
         log |-> IF r.err THEN <<"Error writing row:">> ELSE <<>>]

Notification(direction) ==
    IF direction = "Download" THEN "Inbound traffic (Download)"
    ELSE "Outbound traffic (Upload)"

\* lines 52-74
processPacket(p) ==
    LET c == Classify(p, trackedIPs)
    IN  IF ~c.emit THEN UNCHANGED <<csvWriter, diskFile, console, fileMutex>>
        ELSE /\ CanLock(fileMutex)
             /\ UNCHANGED fileMutex
             /\ \E t \in Times :
                  \E n \in Accepts(CsvWrite(csvWriter, Record(t, c.ip, c.direction, c.size)).w.buf) :
                     LET r == writeToCSVRow(csvWriter, diskFile, t, c.ip,
                                            c.direction, c.size, n)
                     IN  /\ csvWriter' = r.w
                         /\ diskFile' = r.file
                         /\ console' = console \o r.log \o <<Notification(c.direction)>>

\* lines 171-173: the loop pulls the next packet and processes it
CapturePacket ==
    /\ pc = "Capturing"
    /\ nPackets < MaxFrames
    /\ \E p \in Packets :
          /\ packet' = p
          /\ processPacket(p)
    /\ nPackets' = nPackets + 1
    /\ UNCHANGED <<pc, exitCode, pending, trackedIPs, choice, csvFile,
                   handle, defers, concVars>>

\* lines 156-160, 167, 173-174: the packet channel is closed, the loop ends,
\* main returns and its deferred calls run, last registered first
EndOfPackets ==
    /\ pc = "Capturing"
    /\ defers = <<"csvCleanup", "handle.Close">>
    /\ handle' = "closed"
    /\ \E n \in Accepts(csvWriter.buf) :
          /\ csvWriter' = Flush(csvWriter, diskFile, n).w
          /\ diskFile' = Flush(csvWriter, diskFile, n).file
    /\ csvFile' = "closed"
    /\ console' = Append(console, "Writing to CSV completed.")
    /\ defers' = <<>>
    /\ pc' = "Exited"
    /\ exitCode' = 0
    /\ UNCHANGED <<pending, trackedIPs, choice, fileMutex, packet,
                   nPackets, concVars>>

\* an interrupt signal: no handler is installed, so the signal ends the
\* process at once, with a non-zero status (2 here), and no deferred call runs
Interrupt ==
    /\ pc # "Exited"
    /\ pc' = "Exited"
    /\ exitCode' = 2
    /\ UNCHANGED <<pending, trackedIPs, choice, diskFile, csvFile,
                   csvWriter, fileMutex, handle, defers, packet, nPackets,
                   console, concVars>>

\* ------------------------------------------- concurrent callers (SpecConc)
\* writeToCSVRow taken step by step, for NumWriters callers that run at once
\* while main is in its capture loop; a caller's timestamp is an argument,
\* evaluated before the call
CallArgs ==
    {[t |-> 0, ip |-> A1, direction |-> "Download", size |-> 0],
     [t |-> 41, ip |-> A2, direction |-> "Upload", size |-> snapshotLenght]}

Writers == 1..NumWriters

InitConc ==
    /\ pc = "Capturing"
    /\ exitCode = -1
    /\ pending = <<>>
    /\ trackedIPs = {A1, A2}
    /\ choice = 0
    /\ \E n \in Accepts(CsvWrite(NewWriter, Headers).w.buf) :
          /\ csvWriter = initCSVFile(n).w
          /\ diskFile = initCSVFile(n).file
    /\ csvFile = "open"
    /\ fileMutex = 0
    /\ handle = "open"
    /\ defers = <<"csvCleanup", "handle.Close">>
    /\ packet = NoPacket
    /\ nPackets = 0
    /\ console = <<>>
    /\ wpc = [i \in Writers |-> [at |-> "call", k |-> 0]]
    /\ wargs \in [Writers -> CallArgs]
    /\ wrec = [i \in Writers |-> <<>>]

At(i, where) == wpc[i].at = where
Goto(i, where, k) == wpc' = [wpc EXCEPT ![i] = [at |-> where, k |-> k]]

\* line 35: fileMutex.Lock()
WLock(i) ==
    /\ At(i, "call")
    /\ CanLock(fileMutex)
    /\ fileMutex' = i
    /\ Goto(i, "build", 0)
    /\ UNCHANGED <<mainVars, diskFile, csvWriter, console, wargs, wrec>>

\* lines 38-43: build the record
WBuild(i) ==
    /\ At(i, "build")
    /\ wrec' = [wrec EXCEPT ![i] = Record(wargs[i].t, wargs[i].ip,
                                          wargs[i].direction, wargs[i].size)]
    /\ Goto(i, "field", 1)
    /\ UNCHANGED <<mainVars, diskFile, csvWriter, fileMutex, console, wargs>>

\* line 45, csv.Writer.Write: the next field goes to the buffer; a failed
\* write returns the error at once
WField(i) ==
    /\ At(i, "field")
    /\ csvWriter' = WriteField(csvWriter, wrec[i], wpc[i].k)
    /\ IF csvWriter'.err THEN Goto(i, "log", 0)
       ELSE IF wpc[i].k < Len(wrec[i]) THEN Goto(i, "field", wpc[i].k + 1)
       ELSE Goto(i, "newline", 0)
    /\ UNCHANGED <<mainVars, diskFile, fileMutex, console, wargs, wrec>>

\* line 45, csv.Writer.Write: the record terminator
WNewline(i) ==
    /\ At(i, "newline")
    /\ csvWriter' = WriteString(csvWriter, <<NL>>)
    /\ IF csvWriter'.err THEN Goto(i, "log", 0) ELSE Goto(i, "flush", 0)
    /\ UNCHANGED <<mainVars, diskFile, fileMutex, console, wargs, wrec>>

\* line 46: report the error Write returned
WLog(i) ==
    /\ At(i, "log")
    /\ console' = Append(console, "Error writing row:")
    /\ Goto(i, "flush", 0)
    /\ UNCHANGED <<mainVars, diskFile, csvWriter, fileMutex, wargs, wrec>>

\* line 49: csvWriter.Flush()
WFlush(i) ==
    /\ At(i, "flush")
    /\ \E n \in Accepts(csvWriter.buf) :
          /\ csvWriter' = Flush(csvWriter, diskFile, n).w
          /\ diskFile' = Flush(csvWriter, diskFile, n).file
    /\ Goto(i, "unlock", 0)
    /\ UNCHANGED <<mainVars, fileMutex, console, wargs, wrec>>

\* line 36: the deferred fileMutex.Unlock()
WUnlock(i) ==
    /\ At(i, "unlock")
    /\ fileMutex' = 0
    /\ Goto(i, "done", 0)
    /\ UNCHANGED <<mainVars, diskFile, csvWriter, console, wargs, wrec>>

NextConc ==
    \E i \in Writers :
        \/ WLock(i) \/ WBuild(i) \/ WField(i) \/ WNewline(i)
        \/ WLog(i) \/ WFlush(i) \/ WUnlock(i)

SpecConc == InitConc /\ [][NextConc]_vars

Next ==
    \/ ReadInput \/ ResolveEntry \/ CheckTargets \/ SelectAdapter
    \/ InitCSV \/ OpenLive \/ CapturePacket \/ EndOfPackets \/ Interrupt

Spec == Init /\ [][Next]_vars

\* ============================================================ properties
\* Reading the log back: the file is cut into lines at "\n" and a line into
\* fields at ";", and numbers are read from their digits.

IsPrefix(a, b) == Len(a) <= Len(b) /\ SubSeq(b, 1, Len(a)) = a

\* the pieces of s between separators; the last piece is what follows the
\* last separator
RECURSIVE SplitOn(_, _)
SplitOn(s, sep) ==
    IF s = <<>> THEN << <<>> >>
    ELSE LET r == SplitOn(Tail(s), sep)
         IN  IF Head(s) = sep THEN << <<>> >> \o r
             ELSE << <<Head(s)>> \o Head(r) >> \o Tail(r)

IsDigit(d) == \E i \in 1..Len(Digit) : Digit[i] = d
DigitVal(d) == (CHOOSE i \in 1..Len(Digit) : Digit[i] = d) - 1

RECURSIVE ParseUint(_)
ParseUint(ds) ==
    IF Len(ds) = 1 THEN DigitVal(ds[1])
    ELSE ParseUint(SubSeq(ds, 1, Len(ds) - 1)) * 10 + DigitVal(ds[Len(ds)])

IsNumber(ds) == ds # <<>> /\ \A i \in 1..Len(ds) : IsDigit(ds[i])

IsTimestamp(f) ==
    /\ Len(f) = 4
    /\ f[1] = "1970-01-01T00:00:"
    /\ IsDigit(f[2]) /\ IsDigit(f[3])
    /\ f[4] = "Z"

\* a line read as an event row
ReadRow(line) ==
    LET f == SplitOn(line, Comma)
    IN  IF /\ Len(f) = 4
           /\ IsTimestamp(f[1])
           /\ Len(f[2]) = 1
           /\ Len(f[3]) = 1
           /\ IsNumber(f[4])
        THEN [ok |-> TRUE, t |-> ParseUint(<<f[1][2], f[1][3]>>), ip |-> f[2][1],
              direction |-> f[3][1], size |-> ParseUint(f[4])]
        ELSE [ok |-> FALSE, t |-> 0, ip |-> "", direction |-> "", size |-> 0]

HeaderRow == <<"Timestamp", Comma, "IP", Comma, "Traffic", Comma, "Bytes", NL>>

\* the complete lines of the file and what follows the last terminator
Lines(file) == SubSeq(SplitOn(file, NL), 1, Len(SplitOn(file, NL)) - 1)
Rest(file) == SplitOn(file, NL)[Len(SplitOn(file, NL))]

\* the file is the header row followed by complete event rows only
WellFormed(file) ==
    /\ IsPrefix(HeaderRow, file)
    /\ Rest(file) = <<>>
    /\ \A i \in 2..Len(Lines(file)) : ReadRow(Lines(file)[i]).ok

LastRow(file) == ReadRow(Lines(file)[Len(Lines(file))])

\* what a step added at the end of the file
Added == SubSeq(diskFile', Len(diskFile) + 1, Len(diskFile'))

\* the step is the capture loop taking and processing one packet
PacketStep == nPackets' = nPackets + 1

\* the step added exactly one complete row, with these three fields
OneRowAdded(ip, direction, size) ==
    /\ IsPrefix(diskFile, diskFile')
    /\ Len(Lines(Added)) = 1
    /\ Rest(Added) = <<>>
    /\ ReadRow(Lines(Added)[1]) \in
          {[ok |-> TRUE, t |-> t, ip |-> ip, direction |-> direction, size |-> size] :
              t \in Times}

TrackedSrc(p) == p.ipv4 /\ p.src \in trackedIPs
TrackedDst(p) == p.ipv4 /\ p.dst \in trackedIPs

\* C1: a frame whose source is tracked gives exactly one event (source,
\* "Download", byte length of the packet data), whatever the destination: one
\* inbound notification and no outbound one, and, unless the write fails,
\* exactly one row in the log, the Download row.
C1_SourceTrackedDownload ==
    [][(PacketStep /\ TrackedSrc(packet')) =>
          /\ console'[Len(console')] = "Inbound traffic (Download)"
          /\ \A i \in Len(console) + 1 .. Len(console') :
                console'[i] # "Outbound traffic (Upload)"
          /\ Len(console') <= Len(console) + 2
          /\ ~csvWriter'.err => OneRowAdded(packet'.src, "Download", packet'.len)
      ]_vars

\* a frame between two distinct tracked addresses was logged as a Download
\* of its source
C1_Witness ==
    /\ nPackets > 0
    /\ TrackedSrc(packet) /\ TrackedDst(packet) /\ packet.src # packet.dst
    /\ ~csvWriter.err
    /\ WellFormed(diskFile)
    /\ LastRow(diskFile).ip = packet.src
    /\ LastRow(diskFile).direction = "Download"
    /\ LastRow(diskFile).size = packet.len

\* C2: a frame whose destination is tracked and whose source is not gives
\* exactly one event (destination, "Upload", byte length of the packet data).
C2_DestinationTrackedUpload ==
    [][(PacketStep /\ TrackedDst(packet') /\ ~TrackedSrc(packet')) =>
          /\ console'[Len(console')] = "Outbound traffic (Upload)"
          /\ \A i \in Len(console) + 1 .. Len(console') :
                console'[i] # "Inbound traffic (Download)"
          /\ Len(console') <= Len(console) + 2
          /\ ~csvWriter'.err => OneRowAdded(packet'.dst, "Upload", packet'.len)
      ]_vars

C2_Witness ==
    /\ nPackets > 0
    /\ TrackedDst(packet) /\ ~TrackedSrc(packet)
    /\ packet.len = snapshotLenght
    /\ ~csvWriter.err
    /\ WellFormed(diskFile)
    /\ LastRow(diskFile).ip = packet.dst
    /\ LastRow(diskFile).direction = "Upload"
    /\ LastRow(diskFile).size = snapshotLenght

\* the step emitted a traffic event: it printed a traffic notification
Notifications == {"Inbound traffic (Download)", "Outbound traffic (Upload)"}
EmittedInStep ==
    /\ Len(console') > Len(console)
    /\ console'[Len(console')] \in Notifications

\* C3 as stated: an event is emitted if and only if exactly one of the
\* frame's source and destination is tracked.
C3_ExactlyOneTracked ==
    [][PacketStep =>
          (EmittedInStep <=> (TrackedSrc(packet') /\ ~TrackedDst(packet'))
                             \/ (TrackedDst(packet') /\ ~TrackedSrc(packet')))
      ]_vars

\* C3 amended: an event is emitted if and only if at least one of the frame's
\* source and destination is tracked, and the address it records is the
\* source when the source is tracked, else the destination.
C3_AtLeastOneTracked ==
    [][PacketStep =>
          /\ EmittedInStep <=> (TrackedSrc(packet') \/ TrackedDst(packet'))
          /\ (EmittedInStep /\ ~csvWriter'.err) =>
                /\ WellFormed(diskFile')
                /\ diskFile' # diskFile
                /\ LastRow(diskFile').ip =
                      (IF TrackedSrc(packet') THEN packet'.src ELSE packet'.dst)
      ]_vars

\* an event was emitted for a frame whose two addresses are both tracked
C3_Witness ==
    /\ nPackets > 0
    /\ TrackedSrc(packet) /\ TrackedDst(packet)
    /\ console # <<>>
    /\ console[Len(console)] \in Notifications
    /\ Cardinality(trackedIPs) = 2

\* C4: with an empty tracked set after all entries were processed the
\* program has exited with a non-zero status, without creating the log or
\* opening a capture; the log and the capture exist only with a non-empty set.
C4_NoCaptureWithoutTargets ==
    /\ (trackedIPs = {} /\ pc \notin {"Start", "Resolving"}) =>
          /\ pc = "Exited"
          /\ exitCode \in {1, 2}
          /\ csvFile = "nil"
          /\ handle = "nil"
    /\ (pc \in {"InitLog", "OpenCapture", "Capturing"} \/ csvFile # "nil" \/ handle # "nil")
          => trackedIPs # {}

\* every entry was tried, none gave an address, and the program exited
\* with the fatal message
C4_Witness ==
    /\ trackedIPs = {}
    /\ pending = <<>>
    /\ pc = "Exited"
    /\ exitCode = 1
    /\ console # <<>>
    /\ console[Len(console)] = "You didn't enter any valid IPs or resolvable FQDNs."
    /\ Len(console) = 2

\* C5 as stated: once the log file is open, the process exits only after its
\* deferred calls have run: log file closed and capture handle closed.
C5_TeardownOnEveryExit ==
    (pc = "Exited" /\ csvFile # "nil") =>
        /\ csvFile = "closed"
        /\ handle # "open"
        /\ defers = <<>>

\* the callers of SpecConc whose flush is done
Flushed == {i \in Writers : wpc[i].at \in {"unlock", "done"}}

\* the arguments of a caller as a row read back would show them
ArgsRow(i) ==
    [ok |-> TRUE, t |-> wargs[i].t, ip |-> wargs[i].ip,
     direction |-> wargs[i].direction, size |-> wargs[i].size]

\* C6: under any interleaving of the callers, as long as no file write has
\* failed, the log is the header row followed by one complete row for each
\* caller that has flushed, each row the four fields of one call.
C6_RowsNotInterleaved ==
    ~csvWriter.err =>
        /\ WellFormed(diskFile)
        /\ Len(Lines(diskFile)) = 1 + Cardinality(Flushed)
        /\ \E f \in [1..Cardinality(Flushed) -> Flushed] :
              /\ \A i, j \in DOMAIN f : f[i] = f[j] => i = j
              /\ \A i \in DOMAIN f : ReadRow(Lines(diskFile)[i + 1]) = ArgsRow(f[i])

\* all callers have returned and the log holds two different rows
C6_Witness ==
    /\ wpc # <<>>
    /\ \A i \in Writers : wpc[i].at = "done"
    /\ ~csvWriter.err
    /\ Len(Lines(diskFile)) = 1 + NumWriters
    /\ Lines(diskFile)[2] # Lines(diskFile)[3]

\* the write of a row failed in this step: at the buffered Write (the
\* writer had failed before) or at the Flush (it fails now)
RowFailedInStep == PacketStep /\ EmittedInStep /\ csvWriter'.err

\* C7 as stated: a failed row write is reported on the log and the loop goes
\* on with the next frame.
C7_WriteFailureReported ==
    [][RowFailedInStep =>
          /\ pc' = "Capturing"
          /\ Len(console') = Len(console) + 2
          /\ console'[Len(console) + 1] = "Error writing row:"
      ]_vars

\* C8: when no write has failed, after initCSVFile and after every
\* writeToCSVRow the buffer is empty and the file is the header row followed
\* by complete four-field rows; in any case nothing follows in the file
\* unless the whole header row is there first.
C8_FlushedBeforeReturn ==
    /\ (csvWriter.made /\ ~csvWriter.err) =>
          /\ csvWriter.buf = <<>>
          /\ WellFormed(diskFile)
    /\ csvFile # "nil" =>
          \/ IsPrefix(diskFile, HeaderRow)
          \/ IsPrefix(HeaderRow, diskFile)

\* the header and an event row are in the file and nothing is buffered
C8_Witness ==
    /\ pc = "Capturing"
    /\ csvWriter.made /\ ~csvWriter.err
    /\ csvWriter.buf = <<>>
    /\ Len(Lines(diskFile)) = 2
    /\ LastRow(diskFile).ok

\* C9: a frame without an IPv4 layer, or with neither address tracked,
\* changes nothing: no row, no writer change, no change of the tracked set,
\* nothing printed, and the loop goes on.
C9_UnmatchedFrameIgnored ==
    [][(PacketStep /\ ~TrackedSrc(packet') /\ ~TrackedDst(packet')) =>
          /\ UNCHANGED <<diskFile, csvWriter, trackedIPs, console, fileMutex, csvFile>>
          /\ pc' = "Capturing"
      ]_vars

\* an IPv4 frame with neither address tracked went by and the log still
\* holds the header row only
C9_Witness ==
    /\ nPackets = 1
    /\ packet.ipv4
    /\ packet.src \notin trackedIPs /\ packet.dst \notin trackedIPs
    /\ diskFile = HeaderRow
    /\ pc = "Capturing"

\* the row of the event of a matching frame
Matching(p) == TrackedSrc(p) \/ TrackedDst(p)
EventOf(p) ==
    IF TrackedSrc(p) THEN [ip |-> p.src, direction |-> "Download", size |-> p.len]
    ELSE [ip |-> p.dst, direction |-> "Upload", size |-> p.len]

\* C10: while no write fails, each frame the loop processes appends the row
\* of its event at the end of the log if it matches and leaves the log as it
\* is if not, so the rows are the events of the matching frames in delivery
\* order; and no step ever changes or removes what the log already holds.
C10_RowsInDeliveryOrder ==
    [][/\ csvFile = "open" => IsPrefix(diskFile, diskFile')
       /\ (csvFile = "open" /\ ~csvWriter'.err) =>
             IF PacketStep /\ Matching(packet')
             THEN OneRowAdded(EventOf(packet').ip, EventOf(packet').direction,
                              EventOf(packet').size)
             ELSE diskFile' = diskFile
      ]_vars

\* two matching frames were processed and their rows are in the log in the
\* order of delivery: a Download row, then the Upload row of the last frame
C10_Witness ==
    /\ nPackets = 2
    /\ ~csvWriter.err
    /\ Len(Lines(diskFile)) = 3
    /\ ReadRow(Lines(diskFile)[2]).direction = "Download"
    /\ ReadRow(Lines(diskFile)[3]).direction = "Upload"
    /\ ReadRow(Lines(diskFile)[3]).ip = packet.dst
    /\ ~TrackedSrc(packet)
====
